---- MODULE Spec2Model ----
(***************************************************************************)
(* GitHub Code Review MCP server (src/main.py): the repository store       *)
(* repo_data, the review_repository tool with its metadata fetch and its   *)
(* recursive contents walk, the code filter, and the read-only tools.      *)
(*                                                                         *)
(* Python values are modelled as follows.  A str is a TLA+ string.  A dict *)
(* is a function whose domain is its key set ({} is <<>>).  An Optional    *)
(* argument is a sequence: <<>> is None, <<v>> is the value v.  The origin *)
(* (the GitHub API) is the environment: its repository trees are fixed     *)
(* below, its status codes and failures are chosen anew at every request.  *)
(***************************************************************************)
EXTENDS Integers, Sequences, FiniteSets, TLC

(* ------------------------------ bounds --------------------------------- *)

\* Number of tool invocations of review_repository that may be in progress at once.
NCalls == 2

\* Depth to which the directories of the repository deep/nest are nested.
NestDepth == 5

\* Number of distinct metadata revisions the origin may serve for a repository.
NRevisions == 2

(* ------------------------- Python str operations ----------------------- *)

\* s[i:]  (1-based i)
Drop(s, i) == SubSeq(s, i, Len(s))

\* s.startswith(p)
StartsWith(s, p) == Len(p) <= Len(s) /\ SubSeq(s, 1, Len(p)) = p

\* s.endswith(p)
EndsWith(s, p) == Len(p) <= Len(s) /\ SubSeq(s, Len(s) - Len(p) + 1, Len(s)) = p

\* sub in s
Contains(s, sub) == \E i \in 1..(Len(s) - Len(sub) + 1) : SubSeq(s, i, i + Len(sub) - 1) = sub

\* s.count(ch) for a one-character ch
Count(s, ch) == Cardinality({i \in 1..Len(s) : SubSeq(s, i, i) = ch})

\* s.find(ch) + 1 for a character of the set chars: the first position, 0 when there is none
FindAny(s, chars) ==
    LET hits == {i \in 1..Len(s) : SubSeq(s, i, i) \in chars}
    IN  IF hits = {} THEN 0 ELSE CHOOSE i \in hits : \A j \in hits : i <= j

RECURSIVE Split(_, _)
\* s.split(sep) for a one-character sep
Split(s, sep) ==
    LET i == FindAny(s, {sep})
    IN  IF i = 0 THEN <<s>> ELSE <<SubSeq(s, 1, i - 1)>> \o Split(Drop(s, i + 1), sep)

RECURSIVE Replace(_, _, _)
\* s.replace(old, new) for a non-empty old
Replace(s, old, new) ==
    IF Len(s) < Len(old) THEN s
    ELSE IF StartsWith(s, old) THEN new \o Replace(Drop(s, Len(old) + 1), old, new)
    ELSE SubSeq(s, 1, 1) \o Replace(Drop(s, 2), old, new)

UpperLetters == "ABCDEFGHIJKLMNOPQRSTUVWXYZ"
LowerLetters == "abcdefghijklmnopqrstuvwxyz"

RECURSIVE Lower(_)
\* s.lower() for ASCII text
Lower(s) ==
    IF Len(s) = 0 THEN ""
    ELSE LET i == FindAny(UpperLetters, {SubSeq(s, 1, 1)})
         IN  (IF i = 0 THEN SubSeq(s, 1, 1) ELSE SubSeq(LowerLetters, i, i))
             \o Lower(Drop(s, 2))

\* [p for p in parts if p]
NonEmpty(parts) == SelectSeq(parts, LAMBDA p : p # "")

(* ------------------------------ urlparse ------------------------------- *)

SchemeChars == {"a","b","c","d","e","f","g","h","i","j","k","l","m","n","o","p","q","r",
                "s","t","u","v","w","x","y","z","0","1","2","3","4","5","6","7","8","9",
                "+","-","."}

\* urllib.parse.urlparse(url), its netloc and path components: the scheme is the
\* text before the first ":" when it is made of scheme characters; a netloc is
\* present only after "//" and ends at the first of "/", "?", "#"; the path ends
\* at the first "?" or "#".
urlparse(url) ==
    LET c      == FindAny(url, {":"})
        scheme == IF c > 1 /\ \A i \in 1..(c - 1) : SubSeq(url, i, i) \in SchemeChars
                  THEN SubSeq(url, 1, c - 1) ELSE ""
        rest   == IF scheme # "" THEN Drop(url, c + 1) ELSE url
        hasNet == StartsWith(rest, "//")
        after  == IF hasNet THEN Drop(rest, 3) ELSE rest
        e      == FindAny(after, {"/", "?", "#"})
        netloc == IF ~hasNet THEN "" ELSE IF e = 0 THEN after ELSE SubSeq(after, 1, e - 1)
        tail   == IF ~hasNet THEN rest ELSE IF e = 0 THEN "" ELSE Drop(after, e)
        q      == FindAny(tail, {"?", "#"})
    IN  [scheme |-> scheme, netloc |-> netloc,
         path |-> IF q = 0 THEN tail ELSE SubSeq(tail, 1, q - 1)]

(* --------------------------- base64 and UTF-8 -------------------------- *)

\* The padding symbol "=" of a base64 text; the symbols proper are 0..63.
Pad == 64

RECURSIVE B64Encode(_)
\* What the origin does to a file's bytes before transport.
B64Encode(bytes) ==
    IF Len(bytes) = 0 THEN <<>>
    ELSE LET b1 == bytes[1]
             b2 == IF Len(bytes) >= 2 THEN bytes[2] ELSE 0
             b3 == IF Len(bytes) >= 3 THEN bytes[3] ELSE 0
             n  == b1 * 65536 + b2 * 256 + b3
         IN  << n \div 262144, (n \div 4096) % 64,
                IF Len(bytes) >= 2 THEN (n \div 64) % 64 ELSE Pad,
                IF Len(bytes) >= 3 THEN n % 64 ELSE Pad >>
             \o (IF Len(bytes) > 3 THEN B64Encode(SubSeq(bytes, 4, Len(bytes))) ELSE <<>>)

\* binascii.Error: base64.b64decode raises on a text whose length is no multiple of 4
B64Valid(text) == Len(text) % 4 = 0

RECURSIVE b64decode(_)
\* base64.b64decode(text): the bytes a valid base64 text stands for
b64decode(text) ==
    IF Len(text) < 4 THEN <<>>
    ELSE LET v(i) == IF text[i] = Pad THEN 0 ELSE text[i]
             n    == v(1) * 262144 + v(2) * 4096 + v(3) * 64 + v(4)
             k    == IF text[3] = Pad THEN 1 ELSE IF text[4] = Pad THEN 2 ELSE 3
         IN  SubSeq(<< n \div 65536, (n \div 256) % 256, n % 256 >>, 1, k)
             \o b64decode(SubSeq(text, 5, Len(text)))

Letters == "abcdefghijklmnopqrstuvwxyz"

\* The character of an ASCII byte.  The origin modelled here serves lowercase
\* letters and spaces only; any other ASCII byte is shown as "?".
Chr(b) == IF b \in 97..122 THEN SubSeq(Letters, b - 96, b - 96)
          ELSE IF b = 32 THEN " " ELSE "?"

\* UnicodeDecodeError: bytes.decode("utf-8") raises on a byte that starts no valid
\* sequence.  Bytes 0..127 are valid; of the others the origin modelled here
\* serves only 248..255, which are valid nowhere in UTF-8.
Utf8Valid(bytes) == \A i \in 1..Len(bytes) : bytes[i] < 128

RECURSIVE Utf8Decode(_)
Utf8Decode(bytes) ==
    IF Len(bytes) = 0 THEN "" ELSE Chr(bytes[1]) \o Utf8Decode(Tail(bytes))

(* ------------------------------ the origin ----------------------------- *)

None == <<>>
Some(v) == <<v>>

\* f"{owner}/{repo}"
RepoKey(owner, repo) == owner \o "/" \o repo

\* The bytes of the files the origin serves.
TextBytes   == <<112, 114, 105, 110, 116>>
BinaryBytes == <<255, 254, 0, 1>>

FileItem(path, size) == [type |-> "file", path |-> path, size |-> size]
DirItem(path)        == [type |-> "dir", path |-> path, size |-> 0]

\* p joined to the directory d, as the origin reports the paths of a listing
Join(d, name) == IF d = "" THEN name ELSE d \o "/" \o name

RECURSIVE NestDir(_)
\* The path of the directory nested i levels deep in deep/nest: "", "d", "d/d", ...
NestDir(i) == IF i = 0 THEN "" ELSE Join(NestDir(i - 1), "d")

\* GET /repos/{key}/contents/{path} for a directory: the entries of its listing.
\*   acme/widgets  app.py (50 bytes) and logo.png (2,000,000 bytes)
\*   acme/lib      files on both sides of the size limit, a binary one, one
\*                 with an empty content field, a non-code one, and a directory
\*   acme/tiny     a small file, a large one and an empty directory pkg
\*   acme/odd      a file whose path is "error", and a code file
\*   deep/nest     directories nested NestDepth deep, one file f.py in each
Listing(key, path) ==
    IF key = "acme/tiny" /\ path = "" THEN
        << FileItem("main.py", 5), FileItem("data.bin", 2097152), DirItem("pkg") >>
    ELSE
    IF key = "acme/widgets" /\ path = "" THEN
        << FileItem("app.py", 50), FileItem("logo.png", 2000000) >>
    ELSE IF key = "acme/lib" /\ path = "" THEN
        << FileItem("edge.py", 1048575), FileItem("big.py", 1048576),
           FileItem("bin.py", 4), FileItem("README.md", 5),
           FileItem("empty.py", 0), DirItem("src") >>
    ELSE IF key = "acme/odd" /\ path = "" THEN
        << FileItem("error", 5), FileItem("x.py", 5) >>
    ELSE IF key = "acme/lib" /\ path = "src" THEN
        << FileItem("src/util.js", 5) >>
    ELSE IF key = "deep/nest" /\ \E i \in 0..NestDepth : path = NestDir(i) THEN
        << FileItem(Join(path, "f.py"), 5) >>
        \o (IF path = NestDir(NestDepth) THEN <<>> ELSE << DirItem(Join(path, "d")) >>)
    ELSE <<>>

\* os.path.dirname(path): the directory whose listing reports path
DirName(path) ==
    LET cuts == {i \in 1..Len(path) : SubSeq(path, i, i) = "/"}
    IN  IF cuts = {} THEN ""
        ELSE SubSeq(path, 1, (CHOOSE i \in cuts : \A j \in cuts : j <= i) - 1)

\* GET /repos/{key}/contents/{path} for a file: the file object, with the size
\* the listing reports and the content in base64.
FileObject(key, path) ==
    LET dir   == Listing(key, DirName(path))
        bytes == IF EndsWith(path, "bin.py") THEN BinaryBytes
                 ELSE IF EndsWith(path, "empty.py") THEN <<>> ELSE TextBytes
        item  == CHOOSE i \in 1..Len(dir) : dir[i].path = path
    IN  [type |-> "file", path |-> path, encoding |-> "base64",
         content |-> B64Encode(bytes), size |-> dir[item].size]

\* GET /repos/{key}: the metadata blob, in the revision the origin holds now
RepoMetadata(owner, repo, rev) ==
    [name |-> repo, full_name |-> RepoKey(owner, repo), pushed_at |-> rev]

\* What a request can come back with: the call raises (no connection, a body
\* that is no JSON), or a response with a status code and a JSON body.
Raised      == [kind |-> "raise", status |-> 0]
Http(s)     == [kind |-> "http", status |-> s]
Statuses    == {200, 403, 404, 500}
Outcomes    == {Raised} \cup {Http(s) : s \in Statuses}
ExcText     == "connection failed"
\* response.json().get("message", "No additional details") of an error response
Message(s)  == IF s = 403 THEN "API rate limit exceeded"
               ELSE IF s = 404 THEN "Not Found" ELSE "No additional details"

RateLimitText == "GitHub API rate limit exceeded. Please try again later or provide a GitHub token."

(* --------------------------- helper functions -------------------------- *)

\* "error" in d
HasError(d) == "error" \in DOMAIN d

\* fetch_repo_info(owner, repo) when the request comes back with out and the
\* origin holds revision rev
fetch_repo_info(owner, repo, out, rev) ==
    IF out.kind = "raise" THEN
        [error |-> "Error fetching repository information: " \o ExcText]
    ELSE IF out.status = 200 THEN RepoMetadata(owner, repo, rev)
    ELSE IF out.status = 403 THEN
        [error |-> RateLimitText, details |-> Message(403)]
    ELSE IF out.status = 404 THEN
        [error |-> "Repository '" \o RepoKey(owner, repo)
                   \o "' not found. Check if the repository exists and is public."]
    ELSE [error |-> "Failed to fetch repository information: " \o ToString(out.status),
          details |-> Message(out.status)]

\* fetch_file_content(owner, repo, path) when the request comes back with out
fetch_file_content(owner, repo, path, out) ==
    LET content_data == FileObject(RepoKey(owner, repo), path)
    IN  IF out.kind = "raise" THEN
            [error |-> "Error fetching file content: " \o ExcText]
        ELSE IF out.status = 200 /\ content_data.encoding = "base64"
                /\ content_data.content # <<>> THEN
            IF ~B64Valid(content_data.content) THEN
                [error |-> "Error fetching file content: Incorrect padding"]
            ELSE IF Utf8Valid(b64decode(content_data.content)) THEN
                [content |-> Utf8Decode(b64decode(content_data.content)),
                 path |-> path, size |-> content_data.size]
            ELSE
                [content |-> "Binary file (cannot display content)",
                 path |-> path, size |-> content_data.size, is_binary |-> TRUE]
        ELSE IF out.status = 403 THEN
            [error |-> RateLimitText, details |-> Message(403)]
        ELSE IF out.status = 404 THEN
            [error |-> "File '" \o path \o "' not found in repository '"
                       \o RepoKey(owner, repo) \o "'."]
        ELSE [error |-> "Failed to fetch file content: " \o ToString(out.status),
              details |-> Message(out.status)]

\* Mutant of SizeLimit: a file of exactly 1 MiB is still fetched
SizeLimitOneMore == 1024 * 1024 + 1

\* The size below which fetch_repo_files asks for a file's content: 1024 * 1024
SizeLimit == 1048576

\* The record fetch_repo_files makes of a file it does not fetch
TooLargeRecord(item) ==
    [content |-> "File too large to fetch (" \o ToString(item.size) \o " bytes)",
     path |-> item.path, size |-> item.size, too_large |-> TRUE]

\* The error fetch_repo_files returns for a response that is no 200, or a raise
ListingError(owner, repo, path, out) ==
    IF out.kind = "raise" THEN
        [error |-> "Error fetching repository files: " \o ExcText]
    ELSE IF out.status = 403 THEN
        [error |-> RateLimitText, details |-> Message(403)]
    ELSE IF out.status = 404 THEN
        [error |-> "Path '" \o path \o "' not found in repository '"
                   \o RepoKey(owner, repo) \o "'."]
    ELSE [error |-> "Failed to fetch repository contents: " \o ToString(out.status),
          details |-> Message(out.status)]

\* The directory depth up to which fetch_repo_files recurses: path.count("/") < 3
RecurseLimit == 3

CodeExtensions ==
    {".py", ".js", ".ts", ".jsx", ".tsx", ".java", ".c", ".cpp", ".cs",
     ".go", ".rb", ".php", ".swift", ".kt", ".rs", ".html", ".css", ".scss"}

is_code_file(path) == \E ext \in CodeExtensions : EndsWith(path, ext)

\* Mutant of prepare_code_for_review: the records kept are cut down to what a
\* review needs, their path and their size
prepare_code_for_review_trimming(files) ==
    LET kept == {path \in DOMAIN files :
                    "content" \in DOMAIN files[path] /\ is_code_file(path)}
    IN  [path \in kept |-> [path |-> files[path].path, size |-> files[path].size]]

\* prepare_code_for_review(files): every file record is a dict, so the test
\* isinstance(file_data, dict) is true of every entry
prepare_code_for_review(files) ==
    LET kept == {path \in DOMAIN files :
                    "content" \in DOMAIN files[path] /\ is_code_file(path)}
    IN  [path \in kept |-> files[path]]

\* create_review_prompt(code_content, focus_areas): the focus line and the files
\* the prompt quotes
create_review_prompt(code_content, focus_areas) ==
    [focus |-> IF focus_areas # None /\ focus_areas # Some("")
               THEN "Focus areas for review: " \o focus_areas[1]
               ELSE "Please provide a general code review covering best practices, potential bugs, and performance issues.",
     files |-> DOMAIN code_content]

\* generate_review(prompt): a placeholder that does not read the prompt
generate_review(prompt) ==
    [summary |-> "Code review generated successfully",
     details |-> "This is a placeholder for the actual code review that would be generated by Claude."]

(* -------------------------------- state -------------------------------- *)

VARIABLES
    repo_data,   \* the store: "owner/repo" -> snapshot
    repo_keys,   \* the keys of repo_data in the order the dict holds them
    calls,       \* the invocations of review_repository in progress: their locals
    reply,       \* the result most recently returned to the caller of a tool
    completed    \* the keys review_repository has returned status "completed" for

vars == <<repo_data, repo_keys, calls, reply, completed>>

Calls == 1..NCalls

\* An invocation slot nobody is using.  Beside the locals of review_repository
\* a slot keeps failed: the paths whose request, during the walk of this
\* invocation, came back as an error, and requests: the requests for contents
\* the walk of this invocation has sent to the origin, in order.
IdleCall ==
    [pc |-> "idle", repo_url |-> "", owner |-> "", repo |-> "", focus_areas |-> None,
     repo_info |-> <<>>, stack |-> <<>>, files |-> <<>>, code_content |-> <<>>,
     failed |-> {}, requests |-> <<>>]

\* requests.get(f"https://api.github.com/repos/{owner}/{repo}/contents/{path}") as
\* sent by the function by
Request(by, path) == [by |-> by, path |-> path]

\* One activation of fetch_repo_files: its path argument, where it stands, the
\* entries of contents it has yet to process, and its result (its return value
\* once pc is "return").
Frame(path) == [path |-> path, pc |-> "request", items |-> <<>>, result |-> <<>>]

\* A tool's result on its way to the caller, with the tool's first argument
Reply(tool, arg, result) == [tool |-> tool, arg |-> arg, result |-> result]

Init ==
    /\ repo_data = <<>>
    /\ repo_keys = <<>>
    /\ calls = [c \in Calls |-> IdleCall]
    /\ reply = Reply("", "", <<>>)
    /\ completed = {}

(* ------------------------------ the store ------------------------------ *)

\* d[key] = value
SetItem(d, key, value) ==
    [k \in DOMAIN d \cup {key} |-> IF k = key THEN value ELSE d[k]]

\* The dict review_repository stores
Snapshot(repo_info, review_results, focus_areas) ==
    [repo_info |-> repo_info, review_results |-> review_results, focus_areas |-> focus_areas]

\* Mutant of Put: an entry that exists keeps its focus_areas when the new
\* snapshot has none (a merge instead of a replacement).
PutMerging(store, repo_key, snapshot) ==
    SetItem(store, repo_key,
            IF repo_key \in DOMAIN store /\ snapshot.focus_areas = None
            THEN [snapshot EXCEPT !.focus_areas = store[repo_key].focus_areas]
            ELSE snapshot)

\* Mutant of Put: an entry that exists is updated in place, its repo_info kept
\* (repo_data[repo_key].update(...) of the fields that are new).
PutUpdating(store, repo_key, snapshot) ==
    SetItem(store, repo_key,
            IF repo_key \in DOMAIN store
            THEN [snapshot EXCEPT !.repo_info = store[repo_key].repo_info]
            ELSE snapshot)

\* repo_data[repo_key] = snapshot
Put(store, repo_key, snapshot) == SetItem(store, repo_key, snapshot)

\* The order of the dict's keys after repo_data[repo_key] = ...
PutKey(keys, repo_key) ==
    IF \E i \in 1..Len(keys) : keys[i] = repo_key THEN keys ELSE Append(keys, repo_key)

\* d.get(key, default)
DictGet(d, key, default) == IF key \in DOMAIN d THEN d[key] ELSE default

(* --------------------------- review_repository ------------------------- *)

\* "github.com" not in parsed_url.netloc
WrongHost(netloc) == ~Contains(netloc, "github.com")

\* Mutant of PathParts: the empty segments are kept
PathPartsKeepingEmpty(path) == Split(path, "/")

\* [p for p in parsed_url.path.split('/') if p]
PathParts(path) == NonEmpty(Split(path, "/"))

\* The invocation c returns result to its caller.
Return(c, tool, result) ==
    /\ reply' = Reply(tool, calls[c].repo_url, result)
    /\ calls' = [calls EXCEPT ![c] = IdleCall]
    /\ completed' = IF DictGet(result, "status", "") = "completed"
                    THEN completed \cup {result.repo} ELSE completed

\* review_repository up to its first request: the URL is parsed and checked.
Start(c, repo_url, focus_areas) ==
    LET parsed_url == urlparse(repo_url)
        path_parts == PathParts(parsed_url.path)
    IN  /\ calls[c].pc = "idle"
        /\ IF WrongHost(parsed_url.netloc) THEN
               /\ reply' = Reply("review_repository", repo_url,
                      [error |-> "Invalid GitHub URL. Please provide a valid GitHub repository URL."])
               /\ UNCHANGED calls
           ELSE IF Len(path_parts) < 2 THEN
               /\ reply' = Reply("review_repository", repo_url,
                      [error |-> "Invalid GitHub repository URL format."])
               /\ UNCHANGED calls
           ELSE
               /\ calls' = [calls EXCEPT ![c] =
                              [IdleCall EXCEPT !.pc = "info", !.repo_url = repo_url,
                                               !.owner = path_parts[1], !.repo = path_parts[2],
                                               !.focus_areas = focus_areas]]
               /\ UNCHANGED reply
        /\ UNCHANGED <<repo_data, repo_keys, completed>>

\* Mutant of FetchInfo: the metadata is stored as soon as it is fetched, before
\* the walk has shown whether the review will succeed.
FetchInfoStoring(c, out, rev) ==
    LET repo_info == fetch_repo_info(calls[c].owner, calls[c].repo, out, rev)
        repo_key  == RepoKey(calls[c].owner, calls[c].repo)
    IN  /\ calls[c].pc = "info"
        /\ IF HasError(repo_info) THEN
               /\ Return(c, "review_repository", repo_info)
               /\ UNCHANGED <<repo_data, repo_keys>>
           ELSE
               /\ calls' = [calls EXCEPT ![c].pc = "walk", ![c].repo_info = repo_info,
                                         ![c].stack = << Frame("") >>]
               /\ repo_data' = Put(repo_data, repo_key,
                                   Snapshot(repo_info, <<>>, calls[c].focus_areas))
               /\ repo_keys' = PutKey(repo_keys, repo_key)
               /\ UNCHANGED <<reply, completed>>

\* repo_info = fetch_repo_info(owner, repo), and the return on an error
FetchInfo(c, out, rev) ==
    LET repo_info == fetch_repo_info(calls[c].owner, calls[c].repo, out, rev)
    IN  /\ calls[c].pc = "info"
        /\ IF HasError(repo_info) THEN
               Return(c, "review_repository", repo_info)
           ELSE
               /\ calls' = [calls EXCEPT ![c].pc = "walk", ![c].repo_info = repo_info,
                                         ![c].stack = << Frame("") >>]
               /\ UNCHANGED <<reply, completed>>
        /\ UNCHANGED <<repo_data, repo_keys>>

(* ---------------------------- fetch_repo_files ------------------------- *)

\* The innermost activation of fetch_repo_files of call c
Top(c) == calls[c].stack[Len(calls[c].stack)]

\* The innermost activation becomes frame; the requests sent in this step are
\* noted in requests and, if one came back as an error, its path in failed.
SetTop(c, frame, failed, sent) ==
    /\ calls' = [calls EXCEPT ![c].stack[Len(calls[c].stack)] = frame,
                              ![c].failed = @ \cup failed,
                              ![c].requests = @ \o sent]
    /\ UNCHANGED <<repo_data, repo_keys, reply, completed>>

Walking(c, pc) == calls[c].pc = "walk" /\ Top(c).pc = pc

\* The request for the contents of path: an error return, or the listing
WalkRequest(c, out) ==
    /\ Walking(c, "request")
    /\ IF out = Http(200) THEN
           SetTop(c, [Top(c) EXCEPT !.pc = "items",
                         !.items = Listing(RepoKey(calls[c].owner, calls[c].repo), Top(c).path)],
                  {}, << Request("fetch_repo_files", Top(c).path) >>)
       ELSE
           SetTop(c, [Top(c) EXCEPT !.pc = "return",
                         !.result = ListingError(calls[c].owner, calls[c].repo, Top(c).path, out)],
                  {Top(c).path}, << Request("fetch_repo_files", Top(c).path) >>)

\* Mutant of WalkFile: a file whose content request came back as an error stays
\* at the head of the entries to process, to be asked for once more
WalkFileRetrying(c, out) ==
    /\ Walking(c, "items") /\ Top(c).items # <<>>
    /\ LET item         == Head(Top(c).items)
           file_content == fetch_file_content(calls[c].owner, calls[c].repo, item.path, out)
       IN  /\ item.type = "file" /\ item.size < SizeLimit
           /\ SetTop(c, [Top(c) EXCEPT !.items = IF HasError(file_content)
                                                    /\ item.path \notin calls[c].failed
                                                 THEN @ ELSE Tail(@),
                            !.result = IF HasError(file_content) THEN @
                                       ELSE SetItem(@, item.path, file_content)],
                     IF HasError(file_content) THEN {item.path} ELSE {},
                     << Request("fetch_file_content", item.path) >>)

\* for item in contents: a file below the size limit
WalkFile(c, out) ==
    /\ Walking(c, "items") /\ Top(c).items # <<>>
    /\ LET item         == Head(Top(c).items)
           file_content == fetch_file_content(calls[c].owner, calls[c].repo, item.path, out)
       IN  /\ item.type = "file" /\ item.size < SizeLimit
           /\ SetTop(c, [Top(c) EXCEPT !.items = Tail(@),
                            !.result = IF HasError(file_content) THEN @
                                       ELSE SetItem(@, item.path, file_content)],
                     IF HasError(file_content) THEN {item.path} ELSE {},
                     << Request("fetch_file_content", item.path) >>)

\* for item in contents: a file at or above the size limit
WalkLarge(c) ==
    /\ Walking(c, "items") /\ Top(c).items # <<>>
    /\ LET item == Head(Top(c).items)
       IN  /\ item.type = "file" /\ ~(item.size < SizeLimit)
           /\ SetTop(c, [Top(c) EXCEPT !.items = Tail(@),
                            !.result = SetItem(@, item.path, TooLargeRecord(item))],
                     {}, <<>>)

\* Mutant of MayRecurse: the comparison off by one
MayRecurseOneMore(path) == Count(path, "/") <= RecurseLimit

\* path.count("/") < 3: whether fetch_repo_files(path) enters the directories it lists
MayRecurse(path) == Count(path, "/") < RecurseLimit

\* for item in contents: a directory, entered when path.count("/") < 3
WalkDir(c) ==
    /\ Walking(c, "items") /\ Top(c).items # <<>>
    /\ LET item == Head(Top(c).items)
       IN  /\ item.type = "dir"
           /\ calls' = [calls EXCEPT ![c].stack =
                  IF MayRecurse(Top(c).path)
                  THEN Append([@ EXCEPT ![Len(@)].items = Tail(@)], Frame(item.path))
                  ELSE [@ EXCEPT ![Len(@)].items = Tail(@)]]
           /\ UNCHANGED <<repo_data, repo_keys, reply, completed>>

\* Mutant of Merge: the error of a subdirectory becomes the result
MergePropagating(result, sub_contents) ==
    IF HasError(sub_contents) THEN sub_contents
    ELSE [p \in DOMAIN result \cup DOMAIN sub_contents |->
             IF p \in DOMAIN sub_contents THEN sub_contents[p] ELSE result[p]]

\* result.update(sub_contents) unless "error" in sub_contents
Merge(result, sub_contents) ==
    IF HasError(sub_contents) THEN result
    ELSE [p \in DOMAIN result \cup DOMAIN sub_contents |->
             IF p \in DOMAIN sub_contents THEN sub_contents[p] ELSE result[p]]

\* return: to the activation that recursed, or to review_repository (files = ...)
WalkReturn(c) ==
    /\ calls[c].pc = "walk"
    /\ Top(c).pc = "return" \/ (Top(c).pc = "items" /\ Top(c).items = <<>>)
    /\ LET stack == calls[c].stack
           n     == Len(stack)
       IN  calls' = [calls EXCEPT ![c] =
              IF n > 1
              THEN [@ EXCEPT !.stack = [SubSeq(stack, 1, n - 1) EXCEPT
                                ![n - 1].result = Merge(@, stack[n].result)]]
              ELSE [@ EXCEPT !.stack = <<>>, !.files = stack[n].result, !.pc = "filter"]]
    /\ UNCHANGED <<repo_data, repo_keys, reply, completed>>

(* --------------------- review_repository, continued -------------------- *)

\* Mutant of Filter: the entry is stored before files is checked for an error.
FilterStoring(c) ==
    LET repo_key == RepoKey(calls[c].owner, calls[c].repo)
    IN  /\ calls[c].pc = "filter"
        /\ repo_data' = Put(repo_data, repo_key,
                            Snapshot(calls[c].repo_info, <<>>, calls[c].focus_areas))
        /\ repo_keys' = PutKey(repo_keys, repo_key)
        /\ IF HasError(calls[c].files) THEN
               Return(c, "review_repository", calls[c].files)
           ELSE
               /\ calls' = [calls EXCEPT ![c].pc = "store",
                               ![c].code_content = prepare_code_for_review(calls[c].files)]
               /\ UNCHANGED <<reply, completed>>

\* Mutant of Filter: the walk counts as failed when the request for the root
\* listing failed, whatever the keys of the mapping it returned
FilterByRootFailure(c) ==
    /\ calls[c].pc = "filter"
    /\ IF "" \in calls[c].failed THEN
           Return(c, "review_repository", calls[c].files)
       ELSE
           /\ calls' = [calls EXCEPT ![c].pc = "store",
                           ![c].code_content = prepare_code_for_review(calls[c].files)]
           /\ UNCHANGED <<reply, completed>>
    /\ UNCHANGED <<repo_data, repo_keys>>

\* if "error" in files: return files; code_content = prepare_code_for_review(files)
Filter(c) ==
    /\ calls[c].pc = "filter"
    /\ IF HasError(calls[c].files) THEN
           Return(c, "review_repository", calls[c].files)
       ELSE
           /\ calls' = [calls EXCEPT ![c].pc = "store",
                           ![c].code_content = prepare_code_for_review(calls[c].files)]
           /\ UNCHANGED <<reply, completed>>
    /\ UNCHANGED <<repo_data, repo_keys>>

\* The review is generated, the snapshot stored and the result returned.
Store(c) ==
    LET review_prompt  == create_review_prompt(calls[c].code_content, calls[c].focus_areas)
        review_results == generate_review(review_prompt)
        repo_key       == RepoKey(calls[c].owner, calls[c].repo)
    IN  /\ calls[c].pc = "store"
        /\ repo_data' = Put(repo_data, repo_key,
                            Snapshot(calls[c].repo_info, review_results, calls[c].focus_areas))
        /\ repo_keys' = PutKey(repo_keys, repo_key)
        /\ Return(c, "review_repository",
                  [repo |-> repo_key, review |-> review_results, status |-> "completed"])

(* --------------------------- the read-only tools ----------------------- *)

ReviewNotFound == [error |-> "Repository review not found."]
DataNotFound   == [error |-> "Repository data not found."]

\* list_reviewed_repos(): one entry for each key, in the order of the dict
list_reviewed_repos(store, keys) ==
    [i \in 1..Len(keys) |->
        [repo |-> keys[i],
         review_date |-> DictGet(store[keys[i]], "review_date", "N/A"),
         focus_areas |-> DictGet(store[keys[i]], "focus_areas", Some("General review"))]]

get_review_details(store, repo_key) ==
    IF repo_key \notin DOMAIN store THEN ReviewNotFound ELSE store[repo_key]

\* generate_file_suggestions and generate_repo_suggestions: placeholders
generate_file_suggestions(file_content, file_path) ==
    << [line |-> 10, suggestion |-> "Consider using a more descriptive variable name",
        severity |-> "low"] >>

generate_repo_suggestions(repository_data) ==
    [architecture |-> << "Consider implementing a more modular file structure" >>,
     best_practices |-> << "Add comprehensive unit tests for core functionality",
                           "Implement proper error handling throughout the codebase" >>,
     performance |-> << "Optimize database queries in the user service" >>]

suggest_improvements(store, repo_key, file_path) ==
    IF repo_key \notin DOMAIN store THEN ReviewNotFound
    ELSE LET repository_data == store[repo_key]
             code_content    == DictGet(repository_data, "code_content", <<>>)
         IN  IF file_path # None /\ file_path # Some("") /\ file_path[1] \in DOMAIN code_content
             THEN [repo |-> repo_key, file |-> file_path[1],
                   suggestions |-> generate_file_suggestions(code_content[file_path[1]], file_path[1])]
             ELSE [repo |-> repo_key, suggestions |-> generate_repo_suggestions(repository_data)]

\* Mutant of AnalyzeCodeQuality: the metrics are kept in the entry, where
\* generate_cascade_prompt looks for them
AnalyzeCodeQualityStoring(k) ==
    /\ reply' = Reply("analyze_code_quality", k,
                      IF k \notin DOMAIN repo_data THEN DataNotFound
                      ELSE [repo |-> k, recommendations |-> 3])
    /\ repo_data' = IF k \notin DOMAIN repo_data THEN repo_data
                    ELSE [repo_data EXCEPT ![k] =
                             [f \in DOMAIN @ \cup {"quality_metrics"} |->
                                 IF f = "quality_metrics"
                                 THEN [recommendations |-> << "Increase test coverage" >>]
                                 ELSE @[f]]]
    /\ UNCHANGED <<repo_keys, calls, completed>>

\* Mutant of analyze_dependencies: the not-found message of get_review_details
analyze_dependencies_review_message(store, repo_key) ==
    IF repo_key \notin DOMAIN store THEN ReviewNotFound
    ELSE [repo |-> repo_key,
          dependencies |-> [direct |-> 15, indirect |-> 47, outdated |-> 3, vulnerable |-> 1],
          recommendations |-> 2]

\* The analysis tools return fixed payloads; the nested literals are kept to
\* their numbers and the lengths of their lists.
analyze_dependencies(store, repo_key) ==
    IF repo_key \notin DOMAIN store THEN DataNotFound
    ELSE [repo |-> repo_key,
          dependencies |-> [direct |-> 15, indirect |-> 47, outdated |-> 3, vulnerable |-> 1],
          recommendations |-> 2]

scan_security_vulnerabilities(store, repo_key) ==
    IF repo_key \notin DOMAIN store THEN DataNotFound
    ELSE [repo |-> repo_key,
          scan_results |-> [critical |-> 0, high |-> 1, medium |-> 2, low |-> 3],
          vulnerabilities |-> << "high", "medium" >>]

analyze_code_quality(store, repo_key) ==
    IF repo_key \notin DOMAIN store THEN DataNotFound
    ELSE [repo |-> repo_key,
          quality_metrics |-> [maintainability_index |-> 75, cyclomatic_complexity |-> 12,
                               code_duplication |-> 7, test_coverage |-> 68],
          recommendations |-> 3]

analyze_performance(store, repo_key) ==
    IF repo_key \notin DOMAIN store THEN DataNotFound
    ELSE [repo |-> repo_key,
          performance_issues |-> << "high", "medium" >>,
          optimization_opportunities |-> 3]

compare_with_best_practices(store, repo_key, framework) ==
    IF repo_key \notin DOMAIN store THEN DataNotFound
    ELSE [repo |-> repo_key,
          framework |-> IF framework = None \/ framework = Some("") THEN "react"
                        ELSE framework[1],
          compliance_score |-> 72,
          areas |-> [project_structure |-> 85, state_management |-> 60,
                     component_design |-> 78, testing |-> 65],
          recommendations |-> 3]

generate_pull_request_description(store, repo_key, review_id) ==
    IF repo_key \notin DOMAIN store THEN DataNotFound
    ELSE [repo |-> repo_key,
          pull_request_description |->
              [title |-> "Refactor authentication service and fix security vulnerabilities",
               body |-> "## Changes ## Testing ## Reviewers"]]

\* generate_cascade_prompt(repo_key): the improvements are gathered from the
\* fields quality_metrics, vulnerabilities and performance_issues of the entry
\* and, when there are none, chosen by the repository's name; the prompt is
\* kept to the key it names and the list it numbers, the lists of defaults to
\* their hint and their length.
generate_cascade_prompt(store, repo_key) ==
    IF repo_key \notin DOMAIN store THEN DataNotFound
    ELSE LET repository_data == store[repo_key]
             gathered ==
                 (IF "quality_metrics" \in DOMAIN repository_data
                     /\ "recommendations" \in DOMAIN repository_data.quality_metrics
                  THEN repository_data.quality_metrics.recommendations ELSE <<>>)
                 \o (IF "vulnerabilities" \in DOMAIN repository_data
                     THEN [i \in 1..Len(repository_data.vulnerabilities) |-> "security issue"]
                     ELSE <<>>)
                 \o (IF "performance_issues" \in DOMAIN repository_data
                     THEN [i \in 1..Len(repository_data.performance_issues) |-> "performance issue"]
                     ELSE <<>>)
             repo_name == IF Contains(repo_key, "/") THEN Split(repo_key, "/")[2] ELSE repo_key
             hint == IF Contains(Lower(repo_name), "admin") THEN "admin"
                     ELSE IF Contains(Lower(repo_name), "react") \/ Contains(Lower(repo_name), "vue")
                             \/ Contains(Lower(repo_name), "angular") THEN "react"
                     ELSE "generic"
             all_improvements == IF gathered = <<>> THEN [i \in 1..7 |-> hint] ELSE gathered
         IN  [repo |-> repo_key,
              cascade_prompt |-> [repo |-> repo_key, improvements |-> all_improvements],
              improvement_count |-> Len(all_improvements)]

\* generate_improved_code(repo_key, file_path); the cascade_prompt of the result
\* is kept to the path and the code it quotes
generate_improved_code(store, repo_key, file_path) ==
    IF repo_key \notin DOMAIN store THEN DataNotFound
    ELSE LET repository_data == store[repo_key]
             code_content    == DictGet(repository_data, "code_content", <<>>)
         IN  IF file_path \notin DOMAIN code_content THEN
                 [error |-> "File '" \o file_path \o "' not found in repository data."]
             ELSE
                 LET original_code == DictGet(code_content[file_path], "content", "")
                     improved_code ==
                         IF EndsWith(file_path, ".js")
                         THEN Replace(Replace(original_code, "var ", "const "), "function(", "(")
                         ELSE IF EndsWith(file_path, ".py")
                         THEN Replace(original_code, "except:", "except Exception as e:")
                         ELSE original_code
                 IN  [repo |-> repo_key, file_path |-> file_path,
                      original_code |-> original_code, improved_code |-> improved_code,
                      changes |-> 3,
                      cascade_prompt |-> [file_path |-> file_path, original_code |-> original_code]]

\* A read-only tool runs and returns.
Answer(tool, arg, result) ==
    /\ reply' = Reply(tool, arg, result)
    /\ UNCHANGED <<repo_data, repo_keys, calls, completed>>

ListReviewedRepos == Answer("list_reviewed_repos", "", list_reviewed_repos(repo_data, repo_keys))
GetReviewDetails(k) == Answer("get_review_details", k, get_review_details(repo_data, k))
SuggestImprovements(k, f) == Answer("suggest_improvements", k, suggest_improvements(repo_data, k, f))
AnalyzeDependencies(k) == Answer("analyze_dependencies", k, analyze_dependencies(repo_data, k))
ScanSecurityVulnerabilities(k) ==
    Answer("scan_security_vulnerabilities", k, scan_security_vulnerabilities(repo_data, k))
AnalyzeCodeQuality(k) == Answer("analyze_code_quality", k, analyze_code_quality(repo_data, k))
AnalyzePerformance(k) == Answer("analyze_performance", k, analyze_performance(repo_data, k))
CompareWithBestPractices(k, fw) ==
    Answer("compare_with_best_practices", k, compare_with_best_practices(repo_data, k, fw))
GeneratePullRequestDescription(k, review_id) ==
    Answer("generate_pull_request_description", k,
           generate_pull_request_description(repo_data, k, review_id))
GenerateCascadePrompt(k) ==
    Answer("generate_cascade_prompt", k, generate_cascade_prompt(repo_data, k))
GenerateImprovedCode(k, file_path) ==
    Answer("generate_improved_code", k, generate_improved_code(repo_data, k, file_path))

(* ----------------------------- the inputs ------------------------------ *)

GoodUrl   == "https://github.com/acme/widgets"
LibUrl    == "https://github.com/acme/lib"
TinyUrl   == "https://github.com/acme/tiny"
OddUrl    == "https://github.com/acme/odd"
NestUrl   == "https://github.com/deep/nest"
\* a host that is not the origin's and does not contain its name
OtherHostUrl == "https://notgithub.example/a/b"
\* hosts that are not the origin's and contain its name
LookalikeUrl == "https://notgithub.com/acme/widgets"
SuffixUrl    == "https://github.com.evil.example/acme/lib"
OnePartUrl   == "https://github.com/onlyonepart"
NoSchemeUrl  == "github.com/acme/widgets"

\* The URL of the repository name of owner on the origin host
BuildUrl(owner, name) == "https://github.com/" \o owner \o "/" \o name

\* Owner and repository identifiers, in pairs <<owner, name>>, and what may
\* follow them in a URL
Idents   == {<<"acme", "tiny">>, <<"tiny", "acme">>, <<"x-1", "my.repo_2">>}
Trailers == {"", "/", "/tree/main/src", "//issues/", "?tab=readme", "#readme"}

\* URLs on the origin host with empty segments before and between the identifiers
SlashUrl(owner, name) == "https://github.com//" \o owner \o "//" \o name \o "/"

\* URLs on the origin host whose path has fewer than two segments
ShortUrls == {"https://github.com", "https://github.com/", "https://github.com/acme",
              "https://github.com//acme/", "https://github.com/acme?x=/a/b"}

FocusAreas == {None, Some("security")}
Revisions == 1..NRevisions
RepoKeys  == {"acme/widgets", "acme/tiny", "no/such"}
FilePaths == {None, Some("app.py")}
Frameworks == {None, Some("django")}
ReviewIds  == {"r1"}
CodePaths  == {"app.py", "main.py"}

(* --------------------------- specifications ---------------------------- *)

\* One step of the invocation c of review_repository, its arguments and the
\* origin's answers drawn from the sets of in.
Review(c, in) ==
    \/ \E repo_url \in in.urls, focus_areas \in in.focus : Start(c, repo_url, focus_areas)
    \/ \E out \in in.outs, rev \in in.revs : FetchInfo(c, out, rev)
    \/ \E out \in in.outs : WalkRequest(c, out)
    \/ \E out \in in.outs : WalkFile(c, out)
    \/ WalkLarge(c)
    \/ WalkDir(c)
    \/ WalkReturn(c)
    \/ Filter(c)
    \/ Store(c)

\* Concurrent invocations of review_repository on one small repository, its
\* requests answered or rate-limited, with the readers of the store running
\* in between.
SpecInputs ==
    [urls |-> {TinyUrl, OtherHostUrl}, focus |-> FocusAreas,
     outs |-> {Http(200), Http(403)}, revs |-> Revisions]

Next ==
    \/ \E c \in Calls : Review(c, SpecInputs)
    \/ ListReviewedRepos
    \/ \E k \in {"acme/tiny", "no/such"} : GetReviewDetails(k)

Spec == Init /\ [][Next]_vars

\* One invocation at a time, on the repositories with the larger trees, every
\* request open to every outcome.
WalkInputs ==
    [urls |-> {LibUrl, NestUrl, OddUrl, SuffixUrl, NoSchemeUrl}, focus |-> {None},
     outs |-> Outcomes, revs |-> {1}]

WalkNext == Review(1, WalkInputs)

WalkSpec == Init /\ [][WalkNext]_vars

\* One step of the walk of invocation c: the body of fetch_repo_files
WalkStep(c, in) ==
    \/ \E out \in in.outs : WalkRequest(c, out)
    \/ \E out \in in.outs : WalkFile(c, out)
    \/ WalkLarge(c)
    \/ WalkDir(c)
    \/ WalkReturn(c)

\* One invocation at a time on the nested tree and a small one, every request
\* answered, refused or raising, and a walk that has begun running on: the
\* interpreter executes the next statement of fetch_repo_files and every
\* request returns or raises.
FairInputs ==
    [urls |-> {NestUrl, TinyUrl}, focus |-> {None},
     outs |-> {Http(200), Http(404), Raised}, revs |-> {1}]

WalkFairNext == Review(1, FairInputs)

WalkFairSpec == Init /\ [][WalkFairNext]_vars /\ WF_vars(WalkStep(1, FairInputs))

\* One tool at a time: review_repository on two small repositories and every
\* other tool.
ToolInputs ==
    [urls |-> {GoodUrl, TinyUrl, LookalikeUrl, OnePartUrl}, focus |-> FocusAreas,
     outs |-> {Http(200), Http(404)}, revs |-> Revisions]

Quiet == calls[1].pc = "idle"

ToolNext ==
    \/ Review(1, ToolInputs)
    \/ Quiet /\ ListReviewedRepos
    \/ \E k \in RepoKeys :
          \/ Quiet /\ GetReviewDetails(k)
          \/ \E f \in FilePaths : Quiet /\ SuggestImprovements(k, f)
          \/ Quiet /\ AnalyzeDependencies(k)
          \/ Quiet /\ ScanSecurityVulnerabilities(k)
          \/ Quiet /\ AnalyzeCodeQuality(k)
          \/ Quiet /\ AnalyzePerformance(k)
          \/ \E fw \in Frameworks : Quiet /\ CompareWithBestPractices(k, fw)
          \/ \E review_id \in ReviewIds : Quiet /\ GeneratePullRequestDescription(k, review_id)
          \/ Quiet /\ GenerateCascadePrompt(k)
          \/ \E file_path \in CodePaths : Quiet /\ GenerateImprovedCode(k, file_path)

ToolSpec == Init /\ [][ToolNext]_vars

\* One invocation at a time on URLs of the origin host, built from owner and
\* repository identifiers with and without trailing and empty segments, every
\* request answered.
ResolveInputs ==
    [urls |-> {BuildUrl(id[1], id[2]) \o t : id \in Idents, t \in Trailers}
              \cup {SlashUrl(id[1], id[2]) : id \in Idents} \cup ShortUrls,
     focus |-> {None}, outs |-> {Http(200)}, revs |-> {1}]

ResolveNext == Review(1, ResolveInputs)

\* File records of every kind the walk makes: decoded text with and without a
\* code extension, binary, too large
FilterPool ==
    LET fetched(owner, repo, path) == fetch_file_content(owner, repo, path, Http(200))
    IN  [path \in {"edge.py", "bin.py", "README.md", "src/util.js", "big.py",
                   "logo.png", "main.py"} |->
            IF path = "big.py" THEN TooLargeRecord(FileItem("big.py", 1048576))
            ELSE IF path = "logo.png" THEN TooLargeRecord(FileItem("logo.png", 2000000))
            ELSE IF path = "main.py" THEN fetched("acme", "tiny", path)
            ELSE fetched("acme", "lib", path)]

\* The mappings from path to file record over FilterPool
FilterInputs == {[path \in paths |-> FilterPool[path]] : paths \in SUBSET DOMAIN FilterPool}

\* review_repository at the point where the walk has returned files
FilterInit ==
    /\ repo_data = <<>>
    /\ repo_keys = <<>>
    /\ \E files \in FilterInputs :
          calls = [c \in Calls |->
                      IF c = 1
                      THEN [IdleCall EXCEPT !.pc = "filter", !.repo_url = LibUrl,
                                            !.owner = "acme", !.repo = "lib",
                                            !.repo_info = RepoMetadata("acme", "lib", 1),
                                            !.files = files]
                      ELSE IdleCall]
    /\ reply = Reply("", "", <<>>)
    /\ completed = {}

FilterNext == Filter(1) \/ Store(1)

\* prepare_code_for_review applied to every mapping of FilterInputs
FilterSpec == FilterInit /\ [][FilterNext]_vars

ResolveSpec == Init /\ [][ResolveNext]_vars

(* ------------------------------ properties ----------------------------- *)

KeySet(keys) == {keys[i] : i \in 1..Len(keys)}

\* The step in which the invocation c returns status "completed"
Succeeds(c) ==
    /\ calls[c].pc = "store" /\ calls'[c].pc = "idle"
    /\ reply'.tool = "review_repository"
    /\ DictGet(reply'.result, "status", "") = "completed"

\* The key the invocation c resolved its URL to
KeyOf(c) == RepoKey(calls[c].owner, calls[c].repo)

\* The host of a URL
Host(url) == urlparse(url).netloc

\* A tool has returned in this step: reply is another one than before
Replied ==
    \/ reply'.tool # reply.tool
    \/ reply'.arg # reply.arg
    \/ reply'.result # reply.result

\* The paths of the files the origin lists for a repository
OriginFiles(key) ==
    LET dirs  == {"", "src", "pkg"} \cup {NestDir(i) : i \in 0..NestDepth}
        items == UNION {{Listing(key, d)[i] : i \in 1..Len(Listing(key, d))} : d \in dirs}
    IN  {it.path : it \in {x \in items : x.type = "file"}}

\* C1: in every reachable state the keys of repo_data are exactly the keys for
\* which review_repository has returned status "completed": no read-only tool
\* and no failed review adds one.
C1_StoreKeysAreCompletedReviews ==
    /\ DOMAIN repo_data = completed
    /\ KeySet(repo_keys) = completed

\* A failed review of acme/tiny after a completed one of acme/widgets
C1_Witness ==
    /\ completed = {"acme/widgets"}
    /\ reply.tool = "review_repository" /\ reply.arg = TinyUrl
    /\ HasError(reply.result)

\* C2: a review that fails leaves the store as it was: every step of an
\* invocation other than the one in which it returns status "completed" leaves
\* repo_data unchanged, so get_review_details answers as before and no key appears.
C2_FailedReviewLeavesStore ==
    [][ (\A c \in Calls : ~Succeeds(c)) =>
            /\ repo_data' = repo_data /\ repo_keys' = repo_keys
            /\ \A k \in {"acme/lib", "acme/odd", "deep/nest"} :
                  get_review_details(repo_data', k) = get_review_details(repo_data, k) ]_vars

\* A review of acme/lib has failed while the store held a snapshot of acme/lib
C2_Witness ==
    /\ "acme/lib" \in DOMAIN repo_data
    /\ reply.tool = "review_repository" /\ reply.arg = LibUrl
    /\ HasError(reply.result)

\* C3: a successful review replaces the snapshot of its key as a whole: when
\* the invocation returns, get_review_details gives its metadata, its review
\* and its focus_areas (None included), whatever the store held before.
C3_OverwriteIsWholesale ==
    [][ \A c \in Calls : Succeeds(c) =>
            get_review_details(repo_data', KeyOf(c)) =
                [repo_info |-> calls[c].repo_info,
                 review_results |-> reply'.result.review,
                 focus_areas |-> calls[c].focus_areas] ]_vars

\* A second review of acme/widgets, without focus_areas and with other metadata,
\* is about to store over the snapshot of a first one that had focus_areas
C3_Witness ==
    /\ calls[1].pc = "store" /\ KeyOf(1) = "acme/widgets"
    /\ "acme/widgets" \in completed
    /\ repo_data["acme/widgets"].focus_areas = Some("security")
    /\ calls[1].focus_areas = None
    /\ calls[1].repo_info # repo_data["acme/widgets"].repo_info

\* C4: with invocations interleaved, a key is only ever bound to the complete
\* snapshot of one invocation: every stored snapshot has the three fields of
\* one review of its key, every change of the store binds one key to the
\* snapshot built from the locals of the one invocation taking the step, and
\* what get_review_details returns is a whole stored snapshot.
C4_LastWriterWinsWholeSnapshot ==
    /\ [](\A k \in DOMAIN repo_data :
             /\ DOMAIN repo_data[k] = {"repo_info", "review_results", "focus_areas"}
             /\ repo_data[k].repo_info.full_name = k)
    /\ [][ /\ DOMAIN repo_data \subseteq DOMAIN repo_data'
           /\ \A k \in DOMAIN repo_data' :
                 (k \notin DOMAIN repo_data \/ repo_data'[k] # repo_data[k]) =>
                    \E c \in Calls :
                       /\ Succeeds(c) /\ KeyOf(c) = k
                       /\ repo_data'[k] = [repo_info |-> calls[c].repo_info,
                                           review_results |-> reply'.result.review,
                                           focus_areas |-> calls[c].focus_areas]
           /\ (Replied /\ reply'.tool = "get_review_details") =>
                 \/ reply'.arg \notin DOMAIN repo_data /\ reply'.result = ReviewNotFound
                 \/ reply'.arg \in DOMAIN repo_data /\ reply'.result = repo_data[reply'.arg] ]_vars

\* One invocation has stored its snapshot of acme/tiny while another, which
\* fetched other metadata for the same key, has yet to store its own
C4_Witness ==
    /\ calls[1].pc = "idle" /\ calls[2].pc = "store" /\ KeyOf(2) = "acme/tiny"
    /\ "acme/tiny" \in DOMAIN repo_data
    /\ reply.tool = "review_repository" /\ DictGet(reply.result, "status", "") = "completed"
    /\ repo_data["acme/tiny"].repo_info # calls[2].repo_info
    /\ repo_data["acme/tiny"].focus_areas # calls[2].focus_areas

\* The errors fetch_repo_files returns for the root listing
RootErrors(c) ==
    {ListingError(calls[c].owner, calls[c].repo, "", out) : out \in Outcomes \ {Http(200)}}

NestFiles == {Join(NestDir(i), "f.py") : i \in 0..NestDepth}

\* The walk of deep/nest has returned and none of its requests failed
NestWalked(c) ==
    /\ calls[c].pc = "filter" /\ KeyOf(c) = "deep/nest"
    /\ calls[c].failed = {}

\* C6, as claimed: with the depth of a file the number of "/" in its path, the
\* walk of directories nested 5 deep, all requests succeeding, returns every
\* file of depth 0, 1 and 2 and no file of depth 3 or more.
C6_NoFileBelowDepthTwo ==
    \A c \in Calls : NestWalked(c) =>
        DOMAIN calls[c].files = {p \in NestFiles : Count(p, "/") <= 2}

\* C6, amended: that walk returns every file of depth 0 to 4 and no file of
\* depth 5 or more.
C6_NoFileBelowDepthFour ==
    \A c \in Calls : NestWalked(c) =>
        DOMAIN calls[c].files = {p \in NestFiles : Count(p, "/") <= 4}

C6_Witness ==
    \E c \in Calls : NestWalked(c) /\ ~HasError(calls[c].files)

\* C7, as claimed: the entry a successful review stores holds files, the mapping
\* the walk returned, and code_content, the code filter applied to it; for
\* acme/widgets files has the 2 entries app.py and logo.png, logo.png marked
\* too_large, and code_content has app.py alone.
C7_EntryHoldsFilesAndCodeContent ==
    \A k \in DOMAIN repo_data :
        /\ {"files", "code_content"} \subseteq DOMAIN repo_data[k]
        /\ repo_data[k].code_content = prepare_code_for_review(repo_data[k].files)
        /\ k = "acme/widgets" =>
              /\ DOMAIN repo_data[k].files \subseteq {"app.py", "logo.png"}
              /\ DOMAIN repo_data[k].code_content \subseteq {"app.py"}

\* C8, as claimed: the code filter keeps an entry exactly when its record is
\* marked neither is_binary nor too_large and its path ends with an extension
\* of the allow-list.
C8_FilterKeepsDecodedCodeOnly ==
    \A c \in Calls : calls[c].pc = "store" =>
        \A p \in DOMAIN calls[c].files :
            p \in DOMAIN calls[c].code_content <=>
                /\ "is_binary" \notin DOMAIN calls[c].files[p]
                /\ "too_large" \notin DOMAIN calls[c].files[p]
                /\ is_code_file(p)

\* C9, as claimed: for a key that is not in the store the seven tools return
\* one and the same result.
C9_OneNotFoundResult ==
    \A k \in RepoKeys \ DOMAIN repo_data :
        \A r \in {suggest_improvements(repo_data, k, None),
                  analyze_dependencies(repo_data, k),
                  scan_security_vulnerabilities(repo_data, k),
                  analyze_code_quality(repo_data, k),
                  analyze_performance(repo_data, k),
                  compare_with_best_practices(repo_data, k, None)} :
            r = get_review_details(repo_data, k)

ReviewTools == {"get_review_details", "suggest_improvements"}
DataTools   == {"analyze_dependencies", "scan_security_vulnerabilities",
                "analyze_code_quality", "analyze_performance",
                "compare_with_best_practices"}

\* C9, amended: for a key that is not in the store each of the seven tools
\* returns a mapping with the single field error and leaves the store as it
\* is; the message is "Repository review not found." from get_review_details
\* and suggest_improvements and "Repository data not found." from the other five.
C9_NotFoundByToolGroup ==
    [][ (reply'.tool \in ReviewTools \cup DataTools /\ reply'.arg \notin DOMAIN repo_data) =>
            /\ reply'.result = IF reply'.tool \in ReviewTools
                               THEN [error |-> "Repository review not found."]
                               ELSE [error |-> "Repository data not found."]
            /\ Replied => repo_data' = repo_data /\ repo_keys' = repo_keys ]_vars

\* analyze_performance has answered for a key that is not in the store, which
\* holds another key
C9_Witness ==
    /\ reply.tool = "analyze_performance" /\ reply.arg = "acme/tiny"
    /\ reply.result = DataNotFound
    /\ DOMAIN repo_data = {"acme/widgets"}

\* C10, as claimed: a URL whose host is not github.com is rejected with the
\* validation error before any request: no invocation is in progress for such
\* a URL, and the result returned for one is the invalid-URL error.
C10_OnlyOriginHostAccepted ==
    /\ \A c \in Calls : calls[c].pc # "idle" => Host(calls[c].repo_url) = "github.com"
    /\ reply.tool = "review_repository" /\ Host(reply.arg) # "github.com" =>
          reply.result = [error |-> "Invalid GitHub URL. Please provide a valid GitHub repository URL."]

FormatError == [error |-> "Invalid GitHub repository URL format."]

\* C11: a URL on the origin host resolves by the segments of its path, split on
\* "/" with the empty ones dropped: fewer than two give the malformed-path
\* error, otherwise the first is the owner and the second the repository name,
\* whatever follows.  So for identifiers owner and name the URL
\* https://github.com/<owner>/<name>, with or without trailing or empty
\* segments, resolves to (owner, name), and a review of it that completes
\* stores and reports the key "<owner>/<name>".
C11_ResolveInvertsBuildUrl ==
    /\ \A c \in Calls : calls[c].pc # "idle" =>
          LET segs == NonEmpty(Split(urlparse(calls[c].repo_url).path, "/"))
          IN  /\ Len(segs) >= 2
              /\ calls[c].owner = segs[1] /\ calls[c].repo = segs[2]
    /\ \A id \in Idents :
          LET o    == id[1]
              n    == id[2]
              urls == {BuildUrl(o, n) \o t : t \in Trailers} \cup {SlashUrl(o, n)}
          IN  /\ \A c \in Calls : calls[c].pc # "idle" /\ calls[c].repo_url \in urls =>
                    calls[c].owner = o /\ calls[c].repo = n
              /\ reply.tool = "review_repository" /\ reply.arg \in urls
                      /\ ~HasError(reply.result) =>
                    /\ reply.result = [repo |-> o \o "/" \o n, status |-> "completed",
                                       review |-> generate_review(<<>>)]
                    /\ (o \o "/" \o n) \in DOMAIN repo_data
    /\ reply.tool = "review_repository" /\ reply.arg \in ShortUrls =>
          reply.result = FormatError

\* A review of a URL with trailing segments has completed under the key of
\* its first two segments, after one of a URL with empty segments
C11_Witness ==
    /\ reply.tool = "review_repository"
    /\ reply.arg = BuildUrl("x-1", "my.repo_2") \o "/tree/main/src"
    /\ reply.result.repo = "x-1/my.repo_2"
    /\ DOMAIN repo_data = {"x-1/my.repo_2", "acme/tiny"}

\* The requests the walk of invocation c has sent for the content of path
ContentRequests(c, path) ==
    {i \in 1..Len(calls[c].requests) :
        calls[c].requests[i] = Request("fetch_file_content", path)}

\* The entry the walk of invocation c is about to process, if there is one
AtItem(c) == calls[c].pc = "walk" /\ Top(c).pc = "items" /\ Top(c).items # <<>>

\* C12: a listing entry of type file whose size is at least 1,048,576 bytes
\* never causes a content request: no content request of a walk is for such a
\* file, and the step that processes the entry sends nothing and puts under the
\* entry's path a record with too_large set, the entry's path and its size.  An
\* entry of 1,048,575 bytes is content-fetched, one of 1,048,576 is not.
C12_LargeFileNeverFetched ==
    /\ [](\A c \in Calls : \A i \in 1..Len(calls[c].requests) :
             calls[c].requests[i].by = "fetch_file_content" =>
                 FileObject(KeyOf(c), calls[c].requests[i].path).size < 1048576)
    /\ [][ \A c \in Calls : AtItem(c) /\ Head(Top(c).items).type = "file" =>
             LET item   == Head(Top(c).items)
                 result == calls'[c].stack[Len(calls[c].stack)].result
             IN  IF item.size >= 1048576
                 THEN /\ calls'[c].requests = calls[c].requests
                      /\ item.path \in DOMAIN result
                      /\ result[item.path].too_large
                      /\ result[item.path].path = item.path
                      /\ result[item.path].size = item.size
                 ELSE /\ calls'[c].requests =
                           Append(calls[c].requests, Request("fetch_file_content", item.path))
                      /\ item.path \in DOMAIN result => "too_large" \notin DOMAIN result[item.path]
          ]_vars
    /\ [](\A c \in Calls : KeyOf(c) = "acme/lib" /\ calls[c].pc = "filter" =>
             /\ ContentRequests(c, "big.py") = {}
             /\ HasError(calls[c].files) \/ "big.py" \in DOMAIN calls[c].files
             /\ ~HasError(calls[c].files) => Cardinality(ContentRequests(c, "edge.py")) = 1)

\* The walk of acme/lib has returned: edge.py (1,048,575 bytes) was fetched,
\* big.py (1,048,576 bytes) was not and is marked too_large
C12_Witness ==
    /\ calls[1].pc = "filter" /\ KeyOf(1) = "acme/lib"
    /\ ~HasError(calls[1].files)
    /\ {"edge.py", "big.py"} \subseteq DOMAIN calls[1].files
    /\ calls[1].files["big.py"] = [content |-> "File too large to fetch (1048576 bytes)",
                                   path |-> "big.py", size |-> 1048576, too_large |-> TRUE]
    /\ calls[1].files["edge.py"].size = 1048575
    /\ ContentRequests(1, "edge.py") # {} /\ ContentRequests(1, "big.py") = {}

\* C13: every tool other than review_repository leaves the store as it is, for
\* keys present and absent; so a key that is in the store stays in it, and its
\* snapshot changes only when a review of that key completes.
C13_OtherToolsLeaveStore ==
    [][ /\ (Replied /\ reply'.tool # "review_repository") =>
              repo_data' = repo_data /\ repo_keys' = repo_keys
        /\ \A k \in DOMAIN repo_data :
              /\ k \in DOMAIN repo_data'
              /\ \E i \in 1..Len(repo_keys') : repo_keys'[i] = k
              /\ repo_data'[k] # repo_data[k] => \E c \in Calls : Succeeds(c) /\ KeyOf(c) = k
      ]_vars

\* generate_cascade_prompt has answered for a key of the store, which holds
\* the snapshots of two reviews in the order they completed
C13_Witness ==
    /\ reply.tool = "generate_cascade_prompt" /\ reply.arg = "acme/widgets"
    /\ ~HasError(reply.result) /\ reply.result.improvement_count = 7
    /\ repo_keys = << "acme/tiny", "acme/widgets" >>
    /\ DOMAIN repo_data = {"acme/tiny", "acme/widgets"}

\* C14, as claimed: the files that passed the code filter in a review that
\* completes are visible to the downstream tools for its key: for each such
\* path p, suggest_improvements(key, p) returns the file-scoped result with
\* file = p, and generate_improved_code(key, p) a result that is no error and
\* whose original_code is the text of p decoded during the review.
C14_FilteredFilesReachDownstreamTools ==
    [][ \A c \in Calls : Succeeds(c) =>
            \A p \in DOMAIN calls[c].code_content :
                LET suggested == suggest_improvements(repo_data', KeyOf(c), Some(p))
                    improved  == generate_improved_code(repo_data', KeyOf(c), p)
                IN  /\ "file" \in DOMAIN suggested
                    /\ suggested.file = p
                    /\ ~HasError(improved)
                    /\ improved.original_code = calls[c].code_content[p].content ]_vars

\* C15: filtering is idempotent: for every mapping m from path to file record,
\* prepare_code_for_review(prepare_code_for_review(m)) is
\* prepare_code_for_review(m); the result is a sub-mapping of m whose records
\* are those of m, and m is left as it was.
C15_FilterIdempotent ==
    [][ \A c \in Calls : calls[c].pc = "filter" /\ ~HasError(calls[c].files) =>
            LET m == calls[c].files
                r == calls'[c].code_content
            IN  /\ calls'[c].pc = "store"
                /\ r = prepare_code_for_review(m)
                /\ prepare_code_for_review(r) = r
                /\ DOMAIN r \subseteq DOMAIN m
                /\ \A path \in DOMAIN r : r[path] = m[path]
                /\ calls'[c].files = m ]_vars

\* The filter has run on a mapping of seven records of every kind and kept
\* the five with a code extension
C15_Witness ==
    /\ calls[1].pc = "store"
    /\ calls[1].files = FilterPool
    /\ DOMAIN calls[1].code_content = {"edge.py", "bin.py", "src/util.js", "big.py", "main.py"}

\* The directories of a repository on the origin
OriginDirs(key) ==
    LET dirs  == {"", "src", "pkg"} \cup {NestDir(i) : i \in 0..NestDepth}
        items == UNION {{Listing(key, d)[i] : i \in 1..Len(Listing(key, d))} : d \in dirs}
    IN  {""} \cup {it.path : it \in {x \in items : x.type = "dir"}}

\* The directories whose listing the walk of invocation c has received
Visited(c) ==
    {calls[c].requests[i].path :
        i \in {j \in 1..Len(calls[c].requests) : calls[c].requests[j].by = "fetch_repo_files"}}
    \ calls[c].failed

\* The paths of the file entries of the listing of directory d
FilesListed(key, d) ==
    {Listing(key, d)[i].path : i \in {j \in 1..Len(Listing(key, d)) : Listing(key, d)[j].type = "file"}}

\* C16, as claimed: when a walk returns a mapping and not an error, the mapping
\* has a record under the path of every file entry of every listing the walk
\* received, whatever the file's size or content; a content request answered
\* 200 with an empty content field gives a record, not an error.
C16_EveryListedFileHasRecord ==
    \A c \in Calls :
        /\ calls[c].pc = "filter" /\ ~HasError(calls[c].files) =>
              \A d \in Visited(c) : FilesListed(KeyOf(c), d) \subseteq DOMAIN calls[c].files
        /\ calls[c].pc = "walk" =>
              \A d \in Visited(c) : \A path \in FilesListed(KeyOf(c), d) :
                  FileObject(KeyOf(c), path).content = <<>> =>
                      ~HasError(fetch_file_content(calls[c].owner, calls[c].repo, path, Http(200)))

\* C17: a walk started at the root ends, with a mapping or an error, after
\* finitely many requests: every request is for the listing of a directory or
\* the content of a file of the repository's tree, none is sent twice, a failed
\* one included, and no listing is requested of a directory whose path has
\* more than 3 "/".
C17_WalkTerminates ==
    /\ [](\A c \in Calls :
             LET sent     == calls[c].requests
                 listings == {sent[i].path : i \in {j \in 1..Len(sent) : sent[j].by = "fetch_repo_files"}}
                 contents == {sent[i].path : i \in {j \in 1..Len(sent) : sent[j].by = "fetch_file_content"}}
             IN  /\ Cardinality({sent[i] : i \in 1..Len(sent)}) = Len(sent)
                 /\ \A d \in listings : Count(d, "/") <= 3
                 /\ listings \subseteq OriginDirs(KeyOf(c))
                 /\ contents \subseteq OriginFiles(KeyOf(c)))
    /\ \A c \in Calls : (calls[c].pc = "walk") ~> (calls[c].pc # "walk")

\* The walk of deep/nest has returned a mapping after a failed content request
\* and a failed listing, having listed the directory with 3 "/" in its path
C17_Witness ==
    /\ calls[1].pc = "filter" /\ KeyOf(1) = "deep/nest"
    /\ ~HasError(calls[1].files)
    /\ calls[1].failed = {"f.py", NestDir(4)}
    /\ \E i \in 1..Len(calls[1].requests) :
           calls[1].requests[i] = Request("fetch_repo_files", NestDir(4))
    /\ Len(calls[1].requests) = 9

\* C18: review_repository tells the failure of its two fetches by the key
\* "error" alone.  When the metadata or the mapping of the walk has that key,
\* as has the mapping of a walk that fetched a file whose path is "error", the
\* invocation returns that mapping as its result and ends, and the store stays
\* as it is; otherwise it goes on, stores its snapshot and returns status
\* "completed".
C18_ErrorKeyDecides ==
    [][ \A c \in Calls :
          /\ calls[c].pc = "filter" =>
                IF "error" \in DOMAIN calls[c].files
                THEN /\ calls'[c] = IdleCall
                     /\ reply' = Reply("review_repository", calls[c].repo_url, calls[c].files)
                     /\ repo_data' = repo_data /\ repo_keys' = repo_keys
                ELSE calls'[c].pc = "store" /\ reply' = reply
          /\ calls[c].pc = "info" =>
                \/ /\ calls'[c].pc = "walk" /\ "error" \notin DOMAIN calls'[c].repo_info
                   /\ reply' = reply
                \/ /\ calls'[c] = IdleCall /\ "error" \in DOMAIN reply'.result
                   /\ reply'.tool = "review_repository"
                   /\ repo_data' = repo_data /\ repo_keys' = repo_keys
          /\ calls[c].pc = "store" =>
                /\ "error" \notin DOMAIN calls[c].files
                /\ "error" \notin DOMAIN calls[c].repo_info
                /\ Succeeds(c)
                /\ KeyOf(c) \in DOMAIN repo_data'
                /\ repo_data'[KeyOf(c)].repo_info = calls[c].repo_info ]_vars

\* The review of acme/odd, every request answered 200, has returned the mapping
\* of its two files, one of them under the path "error", and stored nothing
C18_Witness ==
    /\ reply.tool = "review_repository" /\ reply.arg = OddUrl
    /\ DOMAIN reply.result = {"error", "x.py"}
    /\ reply.result["error"] = [content |-> "print", path |-> "error", size |-> 5]
    /\ "acme/odd" \notin DOMAIN repo_data

====
